---- MODULE Spec2Model ----
(***************************************************************************)
(* media_organizer.py: the tree walk of organize_media, the date           *)
(* resolution of get_file_date, the classifier is_media_file and the exit  *)
(* code of main, as a state machine over an abstract file system.          *)
(*                                                                         *)
(* File names are sequences of one-character strings, so that lower(),     *)
(* endswith() and os.path.splitext() are computed as Python computes them. *)
(* The trees of the source and of the destination are disjoint.            *)
(***************************************************************************)
EXTENDS Integers, Sequences, FiniteSets, TLC

\* ------------------------------------------------------------------ bounds
\* The number of files in the source tree.
MaxFiles == 2

\* ------------------------------------------------------- strings and names
UpperChars == <<"A","B","C","D","E","F","G","H","I","J","K","L","M",
                "N","O","P","Q","R","S","T","U","V","W","X","Y","Z">>

LowerChars == <<"a","b","c","d","e","f","g","h","i","j","k","l","m",
                "n","o","p","q","r","s","t","u","v","w","x","y","z">>

\* str.lower() on one character
LowerChar(c) ==
    IF \E i \in 1..Len(UpperChars) : UpperChars[i] = c
    THEN LowerChars[CHOOSE i \in 1..Len(UpperChars) : UpperChars[i] = c]
    ELSE c

\* str.lower()
Lower(s) == [i \in 1..Len(s) |-> LowerChar(s[i])]

\* str.endswith(suffix)
EndsWith(s, suffix) ==
    /\ Len(suffix) <= Len(s)
    /\ SubSeq(s, Len(s) - Len(suffix) + 1, Len(s)) = suffix

DigitChars == <<"0","1","2","3","4","5","6","7","8","9">>

\* str(n) for a natural number n
RECURSIVE Str(_)
Str(n) == IF n < 10 THEN <<DigitChars[n + 1]>>
          ELSE Str(n \div 10) \o <<DigitChars[(n % 10) + 1]>>

\* f"{n:02d}"
Pad2(n) == IF n < 10 THEN <<"0">> \o Str(n) ELSE Str(n)

\* the index of the last "." of p, 0 when there is none: p.rfind('.') + 1
LastDot(p) ==
    IF \E i \in 1..Len(p) : p[i] = "."
    THEN CHOOSE i \in 1..Len(p) :
            p[i] = "." /\ \A j \in (i + 1)..Len(p) : p[j] # "."
    ELSE 0

\* os.path.splitext on a file name (no separator): the extension starts at
\* the last dot, unless only dots precede it (leading dots are skipped)
SplitExt(p) ==
    LET d == LastDot(p) IN
    IF d > 0 /\ \E i \in 1..(d - 1) : p[i] # "."
    THEN <<SubSeq(p, 1, d - 1), SubSeq(p, d, Len(p))>>
    ELSE <<p, <<>>>>

\* ------------------------------------------------------- extension sets
get_raw_extensions == {
    <<".","c","r","2">>, <<".","c","r","3">>, <<".","n","e","f">>,
    <<".","n","r","w">>, <<".","a","r","w">>, <<".","s","r","f">>,
    <<".","s","r","2">>, <<".","r","a","f">>, <<".","o","r","f">>,
    <<".","r","w","2">>, <<".","p","e","f">>, <<".","d","n","g">>,
    <<".","r","a","w">>, <<".","r","w","l">>, <<".","i","i","q">>,
    <<".","3","f","r">>, <<".","f","f","f">> }

get_video_extensions == {
    <<".","m","p","4">>, <<".","m","o","v">>, <<".","a","v","i">>,
    <<".","w","m","v">>, <<".","f","l","v">>, <<".","m","k","v">>,
    <<".","m","4","v">>, <<".","m","p","g">>, <<".","m","p","e","g">>,
    <<".","3","g","p">>, <<".","w","e","b","m">>, <<".","m","t","s">>,
    <<".","m","2","t","s">>, <<".","t","s">>, <<".","v","o","b">>,
    <<".","o","g","v">>, <<".","d","v">>, <<".","q","t">> }

\* the standard image extensions is_media_file adds to the two sets above
image_extensions == {
    <<".","j","p","g">>, <<".","j","p","e","g">>, <<".","p","n","g">>,
    <<".","g","i","f">>, <<".","b","m","p">>, <<".","t","i","f","f">> }

\* the extensions get_file_date reads EXIF from
exif_extensions == { <<".","j","p","g">>, <<".","j","p","e","g">>,
                     <<".","t","i","f","f">> }

media_extensions ==
    image_extensions \cup get_raw_extensions \cup get_video_extensions

\* is_media_file: file_path.lower().endswith(tuple(media_extensions))
is_media_file(filename) ==
    \E e \in media_extensions : EndsWith(Lower(filename), e)

\* the category organize_media counts a file in, from splitext(filename)
Categorize(filename) ==
    LET extension == Lower(SplitExt(filename)[2]) IN
    IF extension \in get_raw_extensions THEN "raw_files"
    ELSE IF extension \in get_video_extensions THEN "video_files"
    ELSE "image_files"

\* ------------------------------------------------------------------ dates
\* a datetime, as the calendar date the placement uses
DateTime(y, m, d) == [year |-> y, month |-> m, day |-> d]

DateA == DateTime(2023, 5, 10)
DateB == DateTime(2021, 12, 3)
DateC == DateTime(2021, 12, 4)
DateD == DateTime(2023, 11, 15)
\* datetime.now() at the time of the run
Now == DateTime(2026, 11, 5)

DateTimes == {DateA, DateB, DateC, DateD, Now}

\* Python's None, and the marker of a raised exception
None == [tag |-> "None"]
Raised == [tag |-> "Raised"]
\* hasattr(metadata, key) is false; the attribute exists and is falsy
NoAttr == [tag |-> "noattr"]
Falsy == [tag |-> "falsy"]
\* os.stat raises
StatRaises == [tag |-> "raise"]

\* datetime.strptime(text, '%Y:%m:%d %H:%M:%S') on the tag texts of the model:
\* the value, or Raised for the ValueError of a text that does not match
TagTexts == {"2023:05:10 14:30:00", "2021:12:03 09:00:00",
             "0000:00:00 00:00:00", "2023-05-10"}

Strptime(text) ==
    CASE text = "2023:05:10 14:30:00" -> DateA
      [] text = "2021:12:03 09:00:00" -> DateB
      [] OTHER -> Raised

\* datetime.fromtimestamp(t) on the time stamps of the model (noon UTC, so
\* that the local calendar day does not depend on the time zone)
FromTimestamp(t) ==
    CASE t = 1683720000 -> DateA
      [] t = 1638532800 -> DateB
      [] t = 1638619200 -> DateC
      [] t = 1700049600 -> DateD

Min(a, b) == IF a <= b THEN a ELSE b

\* What the libraries report for a file's content.
\*   video: hachoir's createParser/extractMetadata: kind "raise" (createParser
\*          raises), "noparser" (it returns None), "nometa" (extractMetadata
\*          returns None) or "meta", then the attributes of the metadata
\*          object: NoAttr (hasattr is false), Falsy, or a value
\*   raw:   rawpy.imread: kind "raise", "nometa" (no raw_metadata attribute)
\*          or "meta", then for each tag "absent" or its text
\*   exif:  PIL/piexif: "raise", "notag", or the text of the DateTime tag
VideoDateKeys == <<"creation_date", "last_modification", "date">>
RawDateTags == <<"DateTimeOriginal", "CreateDate", "ModifyDate">>

\* get_video_date: the first attribute of the metadata that exists and is
\* truthy, None otherwise (every exception is swallowed into None)
RECURSIVE FirstVideoDate(_, _)
FirstVideoDate(attrs, i) ==
    IF i > Len(VideoDateKeys) THEN None
    ELSE LET date_value == attrs[VideoDateKeys[i]] IN
         IF date_value # NoAttr /\ date_value # Falsy THEN date_value
         ELSE FirstVideoDate(attrs, i + 1)

get_video_date(video) ==
    IF video.kind = "meta" THEN FirstVideoDate(video.attrs, 1) ELSE None

\* the RAW block of get_file_date: the first tag that is present and parses;
\* a ValueError continues with the next tag, any other failure is passed
RECURSIVE FirstRawDate(_, _)
FirstRawDate(tags, i) ==
    IF i > Len(RawDateTags) THEN None
    ELSE LET date_str == tags[RawDateTags[i]] IN
         IF date_str # "absent" /\ Strptime(date_str) # Raised
         THEN Strptime(date_str)
         ELSE FirstRawDate(tags, i + 1)

RawDate(raw) ==
    IF raw.kind = "meta" THEN FirstRawDate(raw.tags, 1) ELSE None

\* the EXIF block of get_file_date: the DateTime tag of the 0th IFD, parsed;
\* every failure (open, load, decode, parse) is passed
ExifDate(exif) ==
    IF exif \in {"raise", "notag"} THEN None
    ELSE IF Strptime(exif) = Raised THEN None ELSE Strptime(exif)

\* variant of FsDate: the later of the two time stamps
FsDateMax(stat) ==
    IF stat = StatRaises THEN Raised
    ELSE FromTimestamp(IF stat.st_ctime >= stat.st_mtime
                       THEN stat.st_ctime ELSE stat.st_mtime)

\* the filesystem fallback of get_file_date: os.stat raises, or
\* fromtimestamp(min(st_ctime, st_mtime))
FsDate(stat) ==
    IF stat = StatRaises THEN Raised
    ELSE FromTimestamp(Min(stat.st_ctime, stat.st_mtime))

\* the body of get_file_date's outer try
FileDateBody(filename, meta, stat) ==
    LET file_extension == Lower(SplitExt(filename)[2])
        video_date == IF file_extension \in get_video_extensions
                      THEN get_video_date(meta.video) ELSE None
        raw_date == IF file_extension \in get_raw_extensions
                    THEN RawDate(meta.raw) ELSE None
        exif_date == IF file_extension \in exif_extensions
                     THEN ExifDate(meta.exif) ELSE None
    IN  IF video_date # None THEN video_date
        ELSE IF raw_date # None THEN raw_date
        ELSE IF exif_date # None THEN exif_date
        ELSE FsDate(stat)

\* get_file_date: the outer bare except turns every failure into now()
get_file_date(filename, meta, stat) ==
    LET result == FileDateBody(filename, meta, stat) IN
    IF result = Raised THEN Now ELSE result

\* ------------------------------------------------- file contents and trees
\* A file's content stands for its bytes: the size, and what the metadata
\* libraries report for it, are functions of the content.
Contents == {"c1", "c2", "c3", "c4"}

\* os.path.getsize, in bytes
ContentSize(c) ==
    CASE c = "c1" -> 3 [] c = "c2" -> 5 [] c = "c3" -> 7 [] c = "c4" -> 11

NoVideoAttrs == [creation_date |-> NoAttr, last_modification |-> NoAttr,
                 date |-> NoAttr]
\* hasattr is false for an attribute get_video_info asks for
NoInfo == "no attribute"
NoInfoAttrs == [duration |-> NoInfo, width |-> NoInfo, height |-> NoInfo,
                mime_type |-> NoInfo]
NoRawTags == [DateTimeOriginal |-> "absent", CreateDate |-> "absent",
              ModifyDate |-> "absent"]

NoVideo == [kind |-> "noparser", attrs |-> NoVideoAttrs, info |-> NoInfoAttrs]
NoRaw == [kind |-> "raise", tags |-> NoRawTags]

\* c1: a JPEG with the EXIF DateTime 2023:05:10 14:30:00
\* c2: bytes no library reads anything from
\* c3: a video taken on 2023-05-10, with duration, size and MIME type
\* c4: another video of the same day, with a duration only
ContentMeta(c) ==
    CASE c = "c1" -> [video |-> NoVideo, raw |-> NoRaw,
                      exif |-> "2023:05:10 14:30:00"]
      [] c = "c2" -> [video |-> NoVideo, raw |-> NoRaw, exif |-> "raise"]
      [] c = "c3" -> [video |-> [kind |-> "meta",
                                 attrs |-> [NoVideoAttrs EXCEPT
                                               !.creation_date = DateA],
                                 info |-> [duration |-> "0:01:05",
                                           width |-> "1920",
                                           height |-> "1080",
                                           mime_type |-> "video/mp2t"]],
                      raw |-> NoRaw, exif |-> "raise"]
      [] c = "c4" -> [video |-> [kind |-> "meta",
                                 attrs |-> [NoVideoAttrs EXCEPT
                                               !.last_modification = DateA],
                                 info |-> [NoInfoAttrs EXCEPT
                                               !.duration = "0:00:09"]],
                      raw |-> NoRaw, exif |-> "raise"]

\* get_file_hash: the MD5 digest of the content, read in chunks; equal
\* contents give equal digests and (collisions aside) only they do
get_file_hash(c) ==
    CASE c = "c1" -> "md5-1" [] c = "c2" -> "md5-2"
      [] c = "c3" -> "md5-3" [] c = "c4" -> "md5-4"

StatA == [st_ctime |-> 1683720000, st_mtime |-> 1683720000]
StatB == [st_ctime |-> 1638619200, st_mtime |-> 1638532800]

\* The files a source tree is made of, by identifier: directory (the root
\* of the tree or its subdirectory), name, content and os.stat times.
FileRec(d, n, c, st) == [dir |-> d, name |-> n, content |-> c, stat |-> st]

SourceUniverse ==
    [u1  |-> FileRec("root", <<"a",".","j","p","g">>, "c1", StatB),
     u2  |-> FileRec("root", <<"b",".","J","P","G">>, "c1", StatB),
     u3  |-> FileRec("sub",  <<"a",".","j","p","g">>, "c2", StatA),
     u4  |-> FileRec("root", <<"v",".","t","s">>,     "c3", StatB),
     u5  |-> FileRec("sub",  <<"v",".","t","s">>,     "c4", StatB),
     u6  |-> FileRec("sub",  <<"V",".","T","S">>,     "c3", StatB),
     u7  |-> FileRec("root", <<"r",".","n","e","f">>, "c2", StatB),
     u8  |-> FileRec("root", <<"w",".","m","o","v">>, "c2", StatA),
     u9  |-> FileRec("root", <<"n",".","t","x","t">>, "c1", StatA),
     u10 |-> FileRec("sub",  <<".","t","s">>,         "c4", StatA)]

FileIds == DOMAIN SourceUniverse

File(id) == SourceUniverse[id]

Trees == {t \in SUBSET FileIds : Cardinality(t) <= MaxFiles}

\* ------------------------------------------------------- destination tree
\* os.path.join(destination_dir, str(year), f"{month:02d}", f"{day:02d}")
DestDir(file_date) ==
    <<Str(file_date.year), Pad2(file_date.month), Pad2(file_date.day)>>

Media(c) == [kind |-> "media", content |-> c]
Sidecar(lines) == [kind |-> "sidecar", lines |-> lines]

InfoSuffix == <<"_","i","n","f","o",".","t","x","t">>

\* get_video_info on an existing file: the fields of the metadata that
\* exist, in the order the dict is filled; {} when the parser or the metadata
\* is missing or anything raises
get_video_info(video) ==
    IF video.kind # "meta" THEN <<>>
    ELSE (IF video.info.duration # NoInfo
          THEN << <<"duration", video.info.duration>> >> ELSE <<>>)
      \o (IF video.info.width # NoInfo /\ video.info.height # NoInfo
          THEN << <<"resolution", video.info.width, "x", video.info.height>> >>
          ELSE <<>>)
      \o (IF video.info.mime_type # NoInfo
          THEN << <<"format", video.info.mime_type>> >> ELSE <<>>)


\* the destination an earlier run over root/a.jpg and root/v.ts has left
Populated ==
    (<<DestDir(DateA), <<"a",".","j","p","g">>>> :> Media("c1"))
 @@ (<<DestDir(DateA), <<"v",".","t","s">>>> :> Media("c3"))
 @@ (<<DestDir(DateA), <<"v">> \o InfoSuffix>> :>
        Sidecar(get_video_info(ContentMeta("c3").video)))

EmptyFs == [p \in {} |-> Media("c1")]

Destinations == {EmptyFs, Populated}

\* the while loop of organize_media: f"{base_name}_{counter}{extension}" for
\* the first counter from 1 whose name os.path.exists does not find
RECURSIVE Probe(_, _, _, _, _)
Probe(fs, dest_dir, base_name, extension, counter) ==
    LET new_filename == base_name \o <<"_">> \o Str(counter) \o extension IN
    IF <<dest_dir, new_filename>> \in DOMAIN fs
    THEN Probe(fs, dest_dir, base_name, extension, counter + 1)
    ELSE new_filename

NewFilename(fs, dest_dir, filename) ==
    IF <<dest_dir, filename>> \in DOMAIN fs
    THEN Probe(fs, dest_dir, SplitExt(filename)[1], SplitExt(filename)[2], 1)
    ELSE filename

\* ------------------------------------------------------------------ state
VARIABLES
    pc,               \* "main", "walk" (the loop of organize_media), or where
                      \* main returned: "invalid" (line 373), "returned"
                      \* (line 384), "critical" (line 388)
    srcIsDir,         \* os.path.isdir(args.source)
    move,             \* args.move
    tree,             \* the files of the source tree when the run starts
    pending,          \* the files os.walk has not yielded yet
    src,              \* the files that exist in the source tree
    dest,             \* the destination tree: <<date dir, name>> -> file
    destDirs,         \* the date directories of the destination
    destRoot,         \* whether destination_dir exists
    dest0,            \* the destination tree when the run starts
    processed_files,  \* hash -> destination path
    stats,            \* the counters
    outcome,          \* per file: how its iteration of the loop ended
    handles,          \* handles opened and not released
    notified,         \* the notification: "no", "sent" or "failed"
    exitCode,         \* the return value of main, -1 while it runs
    dateIn,           \* the arguments of a call of get_file_date
    dateOut           \* its result

runVars == <<pc, srcIsDir, move, tree, pending, src, dest, destDirs,
             destRoot, dest0, processed_files, stats, outcome, handles,
             notified, exitCode>>
dateVars == <<dateIn, dateOut>>
vars == <<runVars, dateVars>>

NoPath == <<>>
NoTopic == "None"

\* the failures of the environment one file's iteration can meet
\*   hash:      open/read in get_file_hash raises
\*   getsize:   os.path.getsize raises
\*   stat:      os.stat raises inside get_file_date
\*   makedirs:  os.makedirs(dest_dir) raises
\*   copy:      shutil.copy2 / shutil.move raises before anything is written
\*   copy_late: the data is written and then the call raises (copystat in
\*              copy2; in a move across devices, before the source is unlinked)
\*   sidecar:   open(info_path, 'w') raises
Faults == {"none", "hash", "getsize", "stat", "makedirs", "copy", "copy_late",
           "sidecar"}

InitStats == [total_files |-> 0, raw_files |-> 0, video_files |-> 0,
              image_files |-> 0, duplicates |-> 0, errors |-> 0,
              space_saved |-> 0]

Pending == [state |-> "Pending", placed |-> NoPath, raised |-> "none"]

\* the state at the call of main with an arbitrary source tree
InitRun ==
    /\ pc = "main"
    /\ srcIsDir \in BOOLEAN
    /\ move \in BOOLEAN
    /\ tree \in Trees
    /\ pending = tree
    /\ src = tree
    /\ dest0 \in Destinations
    /\ dest = dest0
    /\ destDirs = {p[1] : p \in DOMAIN dest0}
    /\ destRoot = (dest0 # EmptyFs)
    /\ processed_files = <<>>
    /\ stats = InitStats
    /\ outcome = [id \in tree |-> Pending]
    /\ handles = 0
    /\ notified = "no"
    /\ exitCode = -1

Init ==
    /\ InitRun
    /\ dateIn = None
    /\ dateOut = None

\* ------------------------------------------------------------------- main
\* variant of ExitCode: the errors are ignored
ExitCodeAlwaysZero(st) == 0

\* return 0 if stats['errors'] == 0 else 1
ExitCode(st) == IF st.errors = 0 THEN 0 ELSE 1

\* main up to the loop of organize_media: the check of the source directory,
\* then os.makedirs(destination_dir, exist_ok=True), whose failure reaches
\* the handler of main
Main ==
    /\ pc = "main"
    /\ \E makedirs_ok \in BOOLEAN :
          IF ~srcIsDir
          THEN /\ pc' = "invalid"
               /\ exitCode' = 1
               /\ UNCHANGED destRoot
          ELSE IF makedirs_ok
          THEN /\ pc' = "walk"
               /\ destRoot' = TRUE
               /\ UNCHANGED exitCode
          ELSE /\ pc' = "critical"
               /\ exitCode' = 1
               /\ UNCHANGED destRoot
    /\ UNCHANGED <<srcIsDir, move, tree, pending, src, dest,
                   destDirs, dest0, processed_files, stats, outcome, handles,
                   notified, dateVars>>

\* args.ntfy: None or a topic
Topics == {NoTopic, "topic"}

\* send_ntfy_notification: requests.post may raise; the handler logs it
send_ntfy_notification(topic, delivered) ==
    IF delivered THEN "sent" ELSE "failed"

\* the end of organize_media and of main: the statistics are logged, the
\* notification is sent when a topic is given, main returns the exit code
Finish ==
    /\ pc = "walk"
    /\ pending = {}
    /\ \E ntfy_topic \in Topics, delivered \in BOOLEAN :
          notified' = IF ntfy_topic # NoTopic
                      THEN send_ntfy_notification(ntfy_topic, delivered)
                      ELSE "no"
    /\ exitCode' = ExitCode(stats)
    /\ pc' = "returned"
    /\ UNCHANGED <<srcIsDir, move, tree, pending, src, dest,
                   destDirs, destRoot, dest0, processed_files, stats, outcome,
                   handles, dateVars>>

\* ------------------------------------------------- organize_media, per file
\* variant of Transfer: the source file is removed in copy mode too
TransferAlwaysMoves(fs, id, mv) == fs \ {id}

\* what the copy or the move leaves of the source: shutil.move removes the
\* source file, shutil.copy2 does not
Transfer(fs, id, mv) == IF mv THEN fs \ {id} ELSE fs

\* variant of OnFileError: the failure is counted twice
OnFileErrorTwice(st) == [st EXCEPT !.errors = @ + 2]

\* the except clause of the loop body: stats['errors'] += 1
OnFileError(st) == [st EXCEPT !.errors = @ + 1]

\* handles get_file_date opens and does not close: the hachoir parser of
\* get_video_date (createParser returned one), or the PIL image of the EXIF
\* block; rawpy.imread is inside a with statement
DateHandles(filename, meta) ==
    LET file_extension == Lower(SplitExt(filename)[2]) IN
    IF file_extension \in get_video_extensions
    THEN (IF meta.video.kind \in {"nometa", "meta"} THEN 1 ELSE 0)
    ELSE IF file_extension \in exif_extensions /\ meta.exif # "raise"
    THEN 1 ELSE 0

\* handles get_video_info opens and does not close: its hachoir parser
InfoHandles(video) == IF video.kind \in {"nometa", "meta"} THEN 1 ELSE 0

\* The locals of the loop body that depend on the file alone, computed once
\* per file of the universe: is_media_file(filename), the category counter,
\* base_name and extension of line 294, the hash, the size, dest_dir (when
\* os.stat works and when it raises), and what get_video_info(source_path)
\* returns and leaves open while source_path exists.
Locals(id) ==
    LET f == File(id)
        meta == ContentMeta(f.content)
    IN  [is_media |-> is_media_file(f.name),
         category |-> Categorize(f.name),
         base_name |-> SplitExt(f.name)[1],
         extension |-> SplitExt(f.name)[2],
         file_hash |-> get_file_hash(f.content),
         size |-> ContentSize(f.content),
         dest_dir |-> [stat_raises \in BOOLEAN |->
                          DestDir(get_file_date(f.name, meta,
                             IF stat_raises THEN StatRaises ELSE f.stat))],
         date_handles |-> DateHandles(f.name, meta),
         video_info |-> get_video_info(meta.video),
         info_handles |-> InfoHandles(meta.video)]

LocalsOf == [id \in FileIds |-> Locals(id)]

Step(st, pf, sr, de, dd, state, placed, raised, hd) ==
    [st |-> st, pf |-> pf, sr |-> sr, de |-> de, dd |-> dd,
     oc |-> [state |-> state, placed |-> placed, raised |-> raised],
     hd |-> hd]

\* One iteration of the loop body for the file id, which is_media_file has
\* admitted, when the step `fault` names fails if it is reached.
FileStep(id, fault) ==
    LET l == LocalsOf[id]
        counted == [stats EXCEPT !.total_files = @ + 1,
                                 ![l.category] = @ + 1]
        dest_dir == l.dest_dir[fault = "stat"]
        new_filename == NewFilename(dest, dest_dir, File(id).name)
        destination_path == <<dest_dir, new_filename>>
        copied == (destination_path :> Media(File(id).content)) @@ dest
        moved == Transfer(src, id, move)
        \* get_video_info(source_path) after the copy or the move: {} when
        \* the path is gone, createParser raising on it
        reads_info == l.extension \in get_video_extensions /\ id \in moved
        video_info == IF reads_info THEN l.video_info ELSE <<>>
        info_path == <<dest_dir, l.base_name \o InfoSuffix>>
        info_hd == IF reads_info THEN l.info_handles ELSE 0
    IN
    IF fault = "hash"
    THEN Step(OnFileError(counted), processed_files, src, dest, destDirs,
              "Error", NoPath, "hash", 0)
    ELSE IF l.file_hash \in DOMAIN processed_files
    THEN IF fault = "getsize"
         THEN Step(OnFileError([counted EXCEPT !.duplicates = @ + 1]),
                   processed_files, src, dest, destDirs,
                   "Error", NoPath, "getsize", 0)
         ELSE Step([counted EXCEPT !.duplicates = @ + 1,
                                   !.space_saved = @ + l.size],
                   processed_files, src, dest, destDirs,
                   "Duplicate", NoPath, "none", 0)
    ELSE IF fault = "makedirs"
    THEN Step(OnFileError(counted), processed_files, src, dest, destDirs,
              "Error", NoPath, "makedirs", l.date_handles)
    ELSE IF fault = "copy"
    THEN Step(OnFileError(counted), processed_files, src, dest,
              destDirs \cup {dest_dir}, "Error", NoPath, "copy",
              l.date_handles)
    ELSE IF fault = "copy_late"
    THEN Step(OnFileError(counted), processed_files, src, copied,
              destDirs \cup {dest_dir}, "Error", destination_path,
              "copy_late", l.date_handles)
    ELSE IF video_info # <<>> /\ fault = "sidecar"
    THEN Step(OnFileError(counted), processed_files, moved, copied,
              destDirs \cup {dest_dir}, "Error", destination_path,
              "sidecar", l.date_handles + info_hd)
    ELSE Step(counted,
              (l.file_hash :> destination_path) @@ processed_files,
              moved,
              IF video_info # <<>>
              THEN (info_path :> Sidecar(video_info)) @@ copied
              ELSE copied,
              destDirs \cup {dest_dir}, "Processed", destination_path,
              "none", l.date_handles + info_hd)

\* os.walk is top-down: the files of the root are yielded before those of
\* the subdirectory, each directory's files in the order the system lists them
WalkNext(id) ==
    /\ id \in pending
    /\ File(id).dir = "sub" => \A g \in pending : File(g).dir = "sub"

\* One iteration of the loop of organize_media. collected: whether the
\* runtime has finalized the objects no statement closes by the time the
\* iteration ends.
ProcessFile(id, fault, collected) ==
    /\ pc = "walk"
    /\ WalkNext(id)
    /\ pending' = pending \ {id}
    /\ IF ~LocalsOf[id].is_media
       THEN /\ outcome' = [outcome EXCEPT ![id].state = "Skipped"]
            /\ UNCHANGED <<pc, stats, processed_files, src, dest, destDirs,
                           handles>>
       ELSE \E r \in {FileStep(id, fault)} :
               /\ stats' = r.st
               /\ processed_files' = r.pf
               /\ src' = r.sr
               /\ dest' = r.de
               /\ destDirs' = r.dd
               /\ outcome' = [outcome EXCEPT ![id] = r.oc]
               /\ handles' = IF collected THEN 0 ELSE handles + r.hd
               /\ UNCHANGED pc
    /\ UNCHANGED <<srcIsDir, move, tree, destRoot, dest0,
                   notified, exitCode, dateVars>>

Next ==
    \/ Main
    \/ \E id \in tree, fault \in Faults, collected \in BOOLEAN :
          ProcessFile(id, fault, collected)
    \/ Finish

Spec == Init /\ [][Next]_vars

\* ------------------------------------------- get_file_date, called alone
\* The calls of get_file_date the date specification draws its state from:
\* the metadata of the file's own category ranges over everything the
\* library can report, that of the other categories over nothing and a date.
VideoMetas ==
    {[kind |-> k, attrs |-> NoVideoAttrs, info |-> NoInfoAttrs] :
        k \in {"raise", "noparser", "nometa"}}
    \cup {[kind |-> "meta", attrs |-> a, info |-> NoInfoAttrs] :
            a \in [{"creation_date", "last_modification", "date"} ->
                      {NoAttr, Falsy, DateA, DateB}]}

RawMetas ==
    {[kind |-> k, tags |-> NoRawTags] : k \in {"raise", "nometa"}}
    \cup {[kind |-> "meta", tags |-> t] :
            t \in [{"DateTimeOriginal", "CreateDate", "ModifyDate"} ->
                      {"absent"} \cup TagTexts]}

ExifMetas == {"raise", "notag"} \cup TagTexts

SomeVideo == [kind |-> "meta",
              attrs |-> [NoVideoAttrs EXCEPT !.creation_date = DateB],
              info |-> NoInfoAttrs]
SomeRaw == [kind |-> "meta",
            tags |-> [NoRawTags EXCEPT
                         !.DateTimeOriginal = "2021:12:03 09:00:00"]]
SomeExif == "2021:12:03 09:00:00"

Stats == {StatRaises,
          [st_ctime |-> 1638619200, st_mtime |-> 1700049600],
          [st_ctime |-> 1700049600, st_mtime |-> 1638619200]}

DateNames == {<<"a",".","j","p","g">>, <<"B",".","T","I","F","F">>,
              <<"v",".","t","s">>, <<"V",".","M","o","v">>,
              <<"r",".","n","e","f">>, <<"p",".","p","n","g">>,
              <<".","n","e","f">>}

DateInputs ==
    {[name |-> n, meta |-> [video |-> v, raw |-> r, exif |-> e], stat |-> st] :
        n \in DateNames, v \in VideoMetas, r \in {NoRaw, SomeRaw},
        e \in {"raise", SomeExif}, st \in Stats}
    \cup
    {[name |-> n, meta |-> [video |-> v, raw |-> r, exif |-> e], stat |-> st] :
        n \in DateNames, v \in {NoVideo, SomeVideo}, r \in RawMetas,
        e \in {"raise", SomeExif}, st \in Stats}
    \cup
    {[name |-> n, meta |-> [video |-> v, raw |-> r, exif |-> e], stat |-> st] :
        n \in DateNames, v \in {NoVideo, SomeVideo}, r \in {NoRaw, SomeRaw},
        e \in ExifMetas, st \in Stats}

InitDate ==
    /\ dateIn \in DateInputs
    /\ dateOut = None
    /\ pc = "date"
    /\ srcIsDir = TRUE
    /\ move = FALSE
    /\ tree = {}
    /\ pending = {}
    /\ src = {}
    /\ dest0 = EmptyFs
    /\ dest = EmptyFs
    /\ destDirs = {}
    /\ destRoot = FALSE
    /\ processed_files = <<>>
    /\ stats = InitStats
    /\ outcome = <<>>
    /\ handles = 0
    /\ notified = "no"
    /\ exitCode = -1

\* a call get_file_date(file_path) and its return value
ResolveDate ==
    /\ pc = "date"
    /\ dateOut = None
    /\ dateOut' = get_file_date(dateIn.name, dateIn.meta, dateIn.stat)
    /\ UNCHANGED <<dateIn, runVars>>

NextDate == ResolveDate

SpecDate == InitDate /\ [][NextDate]_vars

\* ================================================================= claims
Exited == pc \in {"invalid", "critical", "returned"}
\* main returned from line 384: organize_media walked the whole tree
Walked == pc = "returned"
Visited == tree \ pending
LowerExt(id) == Lower(SplitExt(File(id).name)[2])
Count(S) == Cardinality(S)

\* C7: a visited file is counted in total_files exactly when its lower-cased
\* extension is in the union of the RAW, video and image sets, and then in
\* the one category counter of the set its extension belongs to, so that
\* total_files = raw_files + video_files + image_files; a file with another
\* extension changes no counter and puts nothing in the destination.
C7_CountedByExtension ==
    /\ stats.total_files =
          Count({id \in Visited : LowerExt(id) \in media_extensions})
    /\ stats.raw_files =
          Count({id \in Visited : LowerExt(id) \in get_raw_extensions})
    /\ stats.video_files =
          Count({id \in Visited : LowerExt(id) \in get_video_extensions})
    /\ stats.image_files =
          Count({id \in Visited : LowerExt(id) \in image_extensions})
    /\ stats.total_files =
          stats.raw_files + stats.video_files + stats.image_files
    /\ \A id \in Visited :
          LowerExt(id) \notin media_extensions =>
             outcome[id].state = "Skipped" /\ outcome[id].placed = NoPath

\* C8: after the run, every video the run has placed whose metadata exposes
\* duration, resolution or format has, in its destination directory, the
\* sidecar <stem>_info.txt with its own fields, in copy and in move mode and
\* also when videos of the same name share a date directory.
C8_SidecarOfEveryVideo ==
    Walked =>
      \A id \in tree :
         LET info == get_video_info(ContentMeta(File(id).content).video)
             placed == outcome[id].placed
             sidecar == <<placed[1], SplitExt(File(id).name)[1] \o InfoSuffix>>
         IN  (/\ outcome[id].state = "Processed"
              /\ LowerExt(id) \in get_video_extensions
              /\ info # <<>>)
             => /\ sidecar \in DOMAIN dest
                /\ dest[sidecar] = Sidecar(info)

\* C10: at each file boundary no handle opened for a file is still open.
C10_NoHandleAtFileBoundary == handles = 0

\* C9: when the run ends every counted file is exactly one of Processed,
\* Duplicate and Error, total_files = entries of the seen-fingerprint map +
\* duplicates + errors, and each recorded path names a destination file with
\* the content of that fingerprint.
C9_OutcomeAccounting ==
    Walked =>
      /\ stats.total_files =
            Count(DOMAIN processed_files) + stats.duplicates + stats.errors
      /\ Count(DOMAIN processed_files) =
            Count({id \in tree : outcome[id].state = "Processed"})
      /\ \A h \in DOMAIN processed_files :
            /\ processed_files[h] \in DOMAIN dest
            /\ \E c \in Contents :
                  /\ get_file_hash(c) = h
                  /\ dest[processed_files[h]] = Media(c)

\* the media files of the tree that hold the content c
Holding(c) == {id \in tree : LocalsOf[id].is_media /\ File(id).content = c}

IsCollisionFreeName(fs, dest_dir, filename, used) ==
    IF <<dest_dir, filename>> \notin DOMAIN fs THEN used = filename
    ELSE \E k \in 1..(Count(DOMAIN fs) + 1) :
            /\ used = SplitExt(filename)[1] \o <<"_">> \o Str(k)
                         \o SplitExt(filename)[2]
            /\ <<dest_dir, used>> \notin DOMAIN fs
            /\ \A j \in 1..(k - 1) :
                  <<dest_dir, SplitExt(filename)[1] \o <<"_">> \o Str(j)
                                 \o SplitExt(filename)[2]>> \in DOMAIN fs

\* C2, the naming: a file placed by a step gets the collision-free name
C2_Naming ==
    \A id \in tree :
       (outcome[id].placed = NoPath /\ outcome'[id].placed # NoPath)
       => IsCollisionFreeName(dest, outcome'[id].placed[1], File(id).name,
                              outcome'[id].placed[2])

\* C2, the consequence: every file of the destination is still there, with
\* the same content, after the step
C2_Kept == \A p \in DOMAIN dest : p \in DOMAIN dest' /\ dest'[p] = dest[p]

\* C2: a placed file gets its own name when that is free in its date
\* directory, else stem_k.ext for the least free k >= 1, so that no file
\* already in the destination is overwritten, within a run and by a new run
\* against a populated destination.
C2_NoOverwrite == [][C2_Naming /\ C2_Kept]_vars

\* C3: a failure of any step for one file is caught for that file alone: it
\* adds exactly 1 to errors, the loop goes on over every remaining file and
\* the run returns; a later file that meets no failure of its own is placed
\* or counted as a duplicate.
C3_ErrorIsolation ==
    /\ stats.errors = Count({id \in tree : outcome[id].state = "Error"})
    /\ \A id \in tree :
          outcome[id].state = "Error" <=> outcome[id].raised # "none"
    /\ (Visited # {} /\ Exited) => (Walked /\ pending = {})
    /\ \A id \in Visited :
          (LocalsOf[id].is_media /\ outcome[id].raised = "none")
          => /\ outcome[id].state \in {"Processed", "Duplicate"}
             /\ outcome[id].state = "Processed"
                => /\ outcome[id].placed \in DOMAIN dest
                   /\ dest[outcome[id].placed] = Media(File(id).content)

\* a file of the root failed and a file of the subdirectory, walked after
\* it, was placed, and the run returned
C3_Witness ==
    /\ Walked
    /\ \E a, b \in tree :
          /\ File(a).dir = "root" /\ File(b).dir = "sub"
          /\ outcome[a].state = "Error"
          /\ outcome[b].state = "Processed"
    /\ stats.errors = 1

C4_Source ==
    /\ move => \A id \in tree :
                  /\ id \notin src <=> outcome[id].state = "Processed"
                  /\ outcome[id].state = "Processed"
                     => /\ LocalsOf[id].file_hash \in DOMAIN processed_files
                        /\ processed_files[LocalsOf[id].file_hash]
                              = outcome[id].placed
                        /\ outcome[id].placed \in DOMAIN dest
                        /\ dest[outcome[id].placed] = Media(File(id).content)
    /\ ~move => src = tree

C4_Duplicate ==
    \A id \in tree :
       (outcome[id].state = "Pending" /\ outcome'[id].state = "Duplicate")
       => /\ src' = src
          /\ dest' = dest
          /\ destDirs' = destDirs

\* C4: in move mode a file is absent from its source path exactly when it
\* was Processed, and it is then at the destination path recorded for it; a
\* Duplicate changes nothing in either tree; in copy mode the source tree is
\* unchanged.
C4_SourceEffect == C4_Source /\ [][C4_Duplicate /\ C4_Source']_vars

\* a run in move mode that moved one file and left its duplicate in place
C4_Witness ==
    /\ Walked /\ move
    /\ \E a, b \in tree :
          /\ outcome[a].state = "Processed" /\ a \notin src
          /\ outcome[b].state = "Duplicate" /\ b \in src

\* C6: main returns 0 exactly when the source is a directory, the run
\* completed and errors = 0, and 1 otherwise; with an invalid source nothing
\* is copied or moved and the destination directory is not created; the
\* delivery of the notification does not change the exit code.
C6_ExitCode ==
    /\ ~Exited => exitCode = -1
    /\ Exited =>
          /\ exitCode \in {0, 1}
          /\ exitCode = 0 <=> (srcIsDir /\ Walked /\ stats.errors = 0)
          /\ ~srcIsDir =>
                /\ pc = "invalid"
                /\ src = tree /\ dest = dest0 /\ Visited = {}
                /\ destRoot = (dest0 # EmptyFs)

\* a run that placed a file, failed to deliver its notification and exits 0
C6_Witness ==
    /\ Walked /\ notified = "failed" /\ exitCode = 0
    /\ \E id \in tree : outcome[id].state = "Processed"

\* ----------------------------------------------------- C5, get_file_date
DateExt == Lower(SplitExt(dateIn.name)[2])
GoodTexts == {t \in TagTexts : Strptime(t) \in DateTimes}

\* the attributes, in priority order, that hold a date; the tags that parse
VideoHits ==
    IF dateIn.meta.video.kind # "meta" THEN {}
    ELSE {i \in 1..3 : dateIn.meta.video.attrs[VideoDateKeys[i]] \in DateTimes}
RawHits ==
    IF dateIn.meta.raw.kind # "meta" THEN {}
    ELSE {i \in 1..3 : dateIn.meta.raw.tags[RawDateTags[i]] \in GoodTexts}
Least(S) == CHOOSE i \in S : \A j \in S : i <= j

\* the date the strategy of the file's own category yields, None without one
MetadataDate ==
    IF DateExt \in get_video_extensions /\ VideoHits # {}
    THEN dateIn.meta.video.attrs[VideoDateKeys[Least(VideoHits)]]
    ELSE IF DateExt \in get_raw_extensions /\ RawHits # {}
    THEN Strptime(dateIn.meta.raw.tags[RawDateTags[Least(RawHits)]])
    ELSE IF DateExt \in exif_extensions /\ dateIn.meta.exif \in GoodTexts
    THEN Strptime(dateIn.meta.exif)
    ELSE None

\* C5: get_file_date always returns a date; the strategy of the file's own
\* category wins when it succeeds; otherwise the result is the date of
\* min(st_ctime, st_mtime); it is the current time only when os.stat fails;
\* the metadata of the other categories is not consulted.
C5_DateFallback ==
    dateOut # None =>
       /\ dateOut \in DateTimes
       /\ MetadataDate # None => dateOut = MetadataDate
       /\ (MetadataDate = None /\ dateIn.stat # StatRaises)
          => dateOut = FromTimestamp(IF dateIn.stat.st_ctime <= dateIn.stat.st_mtime
                                     THEN dateIn.stat.st_ctime
                                     ELSE dateIn.stat.st_mtime)
       /\ dateOut = Now <=> (MetadataDate = None /\ dateIn.stat = StatRaises)

\* a JPEG without a usable EXIF date, whose content carries a video date and
\* a RAW date, resolved from the older of two different time stamps
C5_Witness ==
    /\ dateOut = DateC
    /\ DateExt \in exif_extensions
    /\ dateIn.meta.exif = "0000:00:00 00:00:00"
    /\ dateIn.meta.video = SomeVideo
    /\ dateIn.meta.raw = SomeRaw
    /\ dateIn.stat.st_mtime < dateIn.stat.st_ctime

====
